---- MODULE Spec2Model ----
(***************************************************************************)
(* Model of util::log (src/src/logging.h): severity policy, drivers,       *)
(* channel dispatch, entry builder and the pre-defined logging functions.  *)
(***************************************************************************)
EXTENDS Integers, Sequences, FiniteSets, TLC

VARIABLES
    chanSt,       \* per channel object: "none", "live", "bound" (owned by a builder), "dead"
    m_drivers,    \* ChannelBase_::m_drivers, per channel
    m_policies,   \* ChannelBase_::m_policies, per channel (SeverityPolicy thresholds)
    ebSt,         \* EntryBuilder_ object: "none", "open", "done", "terminated"
    m_level,      \* Entry_::m_level of the builder
    m_text,       \* Entry_::m_text of the builder
    m_source,     \* Entry_::m_source of the builder
    m_timestamp,  \* Entry_::m_timestamp of the builder
    m_dest,       \* EntryBuilder_::m_dest
    chnCalls,     \* the arguments of the calls of EntryBuilder_::Channel so far
    ebLog,        \* the last member function called on the builder and its arguments
    submitCalls,  \* every call of ChannelBase_::Submit so far
    plcEvals,     \* every call of Policy_::TransformEntry so far
    drvCalls,     \* every call of Driver_::Submit so far
    console,      \* text written to std::cout
    files,        \* content of the file at each path
    logCalls,     \* every call of ConsoleLog / FileLog so far and how it ended
    now,          \* std::chrono::system_clock::now()
    fmtLog,       \* every call of FormatterText::Format made directly, with its result
    dObj,         \* the formatting driver objects: state, kind, m_formatter, path, m_file buffer
    dChan,        \* m_drivers of the channel that shares the driver objects
    heap,         \* the Node objects: data, next and whether the node is allocated
    first,        \* LinkedList::first
    last,         \* LinkedList::last
    size,         \* LinkedList::size
    llSt,         \* "ok", or how the program ended in a LinkedList call
    llLog,        \* the last LinkedList call, its arguments and how it ended
    tmSt,         \* the Timer object: "none", "live", "dead", or how a call on it ended the program
    tmTF,         \* the template argument TF, as the number of clock ticks in one TF unit
    m_steps,      \* Timer::m_steps
    tmLog         \* the last GetDuration call and what it returned

vars == <<chanSt, m_drivers, m_policies, ebSt, m_level, m_text, m_source, m_timestamp,
          m_dest, chnCalls, ebLog, submitCalls, plcEvals, drvCalls, console, files,
          logCalls, now, fmtLog, dObj, dChan, heap, first, last, size, llSt, llLog,
          tmSt, tmTF, m_steps, tmLog>>

chanVars == <<chanSt, m_drivers, m_policies>>
ebVars   == <<ebSt, m_level, m_text, m_source, m_timestamp, m_dest, chnCalls, ebLog>>
logVars  == <<console, files, logCalls>>

\* the state of the clock and of the parts that the logging operations leave alone
drvObjVars == <<dObj, dChan>>
listVars   == <<heap, first, last, size, llSt, llLog>>
timerVars  == <<tmSt, tmTF, m_steps, tmLog>>
auxVars    == <<now, fmtLog, drvObjVars, listVars, timerVars>>

-----------------------------------------------------------------------------
(* Bounds *)

NumChannels == 2
MaxDrivers  == 2
MaxPolicies == 2
MaxSubmits  == 3
MaxEvals    == 2
MaxLogCalls == 2
MaxBinds    == 3
MaxClock    == 1
MaxFormats  == 2
NumDrvObjs  == 2
MaxObjSubmits == 2
MaxNodes    == 3
MaxListCalls == 4
MaxSteps    == 3
MaxGets     == 2

-----------------------------------------------------------------------------
(* LOG_LEVEL *)

LOG_LEVEL == <<"NONE", "FATAL", "ERROR", "WARN", "INFO", "DEBUG", "TRACE">>

Levels == {LOG_LEVEL[i] : i \in 1..Len(LOG_LEVEL)}

\* the enumerator's underlying value
LevelOrd(lvl) == (CHOOSE i \in 1..Len(LOG_LEVEL) : LOG_LEVEL[i] = lvl) - 1

GetLOG_LEVELName_(lvl) ==
    CASE lvl = "TRACE" -> "TRACE"
      [] lvl = "DEBUG" -> "DEBUG"
      [] lvl = "INFO"  -> "INFO"
      [] lvl = "WARN"  -> "WARN"
      [] lvl = "ERROR" -> "ERROR"
      [] lvl = "FATAL" -> "FATAL"
      [] OTHER         -> "NONE"

-----------------------------------------------------------------------------
(* Entry_ *)

Null == 0

Texts == {"a", "b"}

\* a default-constructed std::source_location
NoLoc == [file |-> "", line |-> 0, function |-> ""]

\* the places entries are made at by the callers
CallSites == {[file |-> "main.cpp", line |-> 9, function |-> "main"],
              [file |-> "game.cpp", line |-> 40, function |-> "Update"]}

\* Entry_(): the default member initializers
Entry_ == [m_level |-> "INFO", m_text |-> "", m_source |-> NoLoc, m_timestamp |-> 0]

\* Entry_(src, ts)
EntryAt(src, ts) == [Entry_ EXCEPT !.m_source = src, !.m_timestamp = ts]

\* an Entry_ whose level and text the caller has set
MakeEntry(lvl, txt) == [Entry_ EXCEPT !.m_level = lvl, !.m_text = txt]

-----------------------------------------------------------------------------
(* Policy *)

TransformEntry_Strict(thr, entry) == LevelOrd(entry.m_level) > LevelOrd(thr)

TransformEntry_Reversed(thr, entry) == LevelOrd(entry.m_level) <= LevelOrd(thr)

\* SeverityPolicy(thr).TransformEntry(entry)
TransformEntry(thr, entry) == LevelOrd(entry.m_level) >= LevelOrd(thr)

-----------------------------------------------------------------------------
(* Formatter *)

\* std::chrono::zoned_time{zone, ts} as std::format renders it
ZonedTime(zone, ts) == ToString(ts) \o " " \o zone

\* the time zones std::chrono::current_zone() can return
Zones == {"UTC", "CET"}

\* std::chrono::current_zone() of the process that logs
current_zone == "UTC"

FormatIn_Stateful(entry, zone) ==
    <<"[", GetLOG_LEVELName_(entry.m_level), "] (", ZonedTime(zone, entry.m_timestamp),
      ") : \"", entry.m_text, "\" in function: ", entry.m_source.function,
      "\n   ", entry.m_source.file, "(", ToString(entry.m_source.line + Len(fmtLog)), ")\n">>

\* FormatterText::Format in time zone zone: the pieces of
\* "[{}] ({}) : \"{}\" in function: {}\n   {}({})\n"
FormatIn(entry, zone) ==
    <<"[", GetLOG_LEVELName_(entry.m_level), "] (", ZonedTime(zone, entry.m_timestamp),
      ") : \"", entry.m_text, "\" in function: ", entry.m_source.function,
      "\n   ", entry.m_source.file, "(", ToString(entry.m_source.line), ")\n">>

\* FormatterText::Format
Format(entry) == FormatIn(entry, current_zone)

\* the entry a logged call was made with
EntryOf(e) == [m_level |-> e.level, m_text |-> e.text, m_source |-> e.src,
               m_timestamp |-> e.ts]

-----------------------------------------------------------------------------
(* Drivers *)

Paths == {"log\\log.txt", "tmp\\other.txt"}

DEFAULT_FILE_LOG_PATH == "log\\log.txt"

\* a user-defined Driver_ that stores every entry it is given
RecordingDriver == [id |-> 1, kind |-> "custom", m_formatter |-> "none",
                    m_file |-> "none", path |-> "none", writeOK |-> TRUE, throws |-> FALSE]

\* a FileDriver whose stream failed to open
FailedFileDriver == [id |-> 2, kind |-> "file", m_formatter |-> "FormatterText",
                     m_file |-> "fail", path |-> "tmp\\other.txt", writeOK |-> TRUE,
                     throws |-> FALSE]

\* a driver whose Submit raises: a user-defined Driver_, or a formatting
\* driver whose formatter raises (std::format, std::chrono::current_zone)
ThrowingDriver == [id |-> 3, kind |-> "custom", m_formatter |-> "none",
                   m_file |-> "none", path |-> "none", writeOK |-> TRUE, throws |-> TRUE]

Drivers == {RecordingDriver, FailedFileDriver, ThrowingDriver}

\* StdConsoleDebugDriver()
StdConsoleDebugDriver == [id |-> 4, kind |-> "console", m_formatter |-> "FormatterText",
                          m_file |-> "none", path |-> "none", writeOK |-> TRUE,
                          throws |-> FALSE]

\* FileDriver(path): create_directories throws when the directory cannot be
\* made; open leaves the stream failed when the file cannot be opened.
\* writeOK tells whether the device takes the writes made later.
FileDriver(path, env) ==
    IF ~env.dirOK
    THEN [raised |-> TRUE, drv |-> Null]
    ELSE [raised |-> FALSE,
          drv |-> [id |-> 5, kind |-> "file", m_formatter |-> "FormatterText",
                   m_file |-> IF env.openOK THEN "good" ELSE "fail",
                   path |-> path, writeOK |-> env.writeOK, throws |-> FALSE]]

\* drv->Submit(entry): "written", "dropped" (returns, nothing written) or
\* "raised". A write on a failed stream, or one the device refuses, writes
\* nothing and returns.
DriverSubmit(drv, entry) ==
    CASE drv.kind = "custom"  -> IF drv.throws THEN "raised" ELSE "written"
      [] drv.kind = "console" -> IF drv.m_formatter # "null" THEN "written" ELSE "dropped"
      [] drv.kind = "file"    -> IF drv.m_formatter # "null"
                                 THEN IF drv.m_file = "good" /\ drv.writeOK
                                      THEN "written" ELSE "dropped"
                                 ELSE "dropped"

-----------------------------------------------------------------------------
(* Channel *)

ChanIds == 1..NumChannels

\* the channel the callers of Spec construct and submit to directly
DirectChans == {1}

SeqsUpTo(S, n) == UNION {[1..k -> S] : k \in 0..n}

RECURSIVE RunPolicies(_, _, _)
\* first loop of ChannelBase_::Submit, from policy i on
RunPolicies(plcs, entry, i) ==
    IF i > Len(plcs) THEN <<>>
    ELSE LET r == TransformEntry(plcs[i], entry)
             e == [idx |-> i, thr |-> plcs[i], level |-> entry.m_level,
                   text |-> entry.m_text, src |-> entry.m_source,
                   ts |-> entry.m_timestamp, result |-> r]
         IN  IF ~r THEN <<e>> ELSE <<e>> \o RunPolicies(plcs, entry, i + 1)

RECURSIVE RunDrivers(_, _, _)
\* second loop of ChannelBase_::Submit, from driver i on; an exception leaves the loop
RunDrivers(drvs, entry, i) ==
    IF i > Len(drvs) THEN <<>>
    ELSE LET o == DriverSubmit(drvs[i], entry)
             e == [idx |-> i, drv |-> drvs[i], level |-> entry.m_level,
                   text |-> entry.m_text, src |-> entry.m_source,
                   ts |-> entry.m_timestamp, outcome |-> o]
         IN  IF o = "raised" THEN <<e>> ELSE <<e>> \o RunDrivers(drvs, entry, i + 1)

ChannelSubmit_PolicyRewrites(plcs, drvs, entry) ==
    LET evals == RunPolicies(plcs, entry, 1)
        pass  == \A k \in 1..Len(evals) : evals[k].result
        seen  == IF plcs = <<>> THEN entry
                 ELSE [entry EXCEPT !.m_level = plcs[Len(plcs)]]
        calls == IF pass THEN RunDrivers(drvs, seen, 1) ELSE <<>>
    IN  [evals |-> evals, calls |-> calls,
         outcome |-> IF \E k \in 1..Len(calls) : calls[k].outcome = "raised"
                     THEN "raised" ELSE "returned"]

ChannelSubmit_IgnorePolicies(plcs, drvs, entry) ==
    LET evals == RunPolicies(plcs, entry, 1)
        calls == RunDrivers(drvs, entry, 1)
    IN  [evals |-> evals, calls |-> calls,
         outcome |-> IF \E k \in 1..Len(calls) : calls[k].outcome = "raised"
                     THEN "raised" ELSE "returned"]

\* ChannelBase_::Submit on a channel with policies plcs and drivers drvs
ChannelSubmit(plcs, drvs, entry) ==
    LET evals == RunPolicies(plcs, entry, 1)
        pass  == \A k \in 1..Len(evals) : evals[k].result
        calls == IF pass THEN RunDrivers(drvs, entry, 1) ELSE <<>>
    IN  [evals |-> evals, calls |-> calls,
         outcome |-> IF \E k \in 1..Len(calls) : calls[k].outcome = "raised"
                     THEN "raised" ELSE "returned"]

\* std::cout after the driver calls of one submission
ConsoleAfter(con, calls) ==
    LET W == SelectSeq(calls, LAMBDA e : e.drv.kind = "console" /\ e.outcome = "written")
    IN  con \o [k \in 1..Len(W) |-> Format(EntryOf(W[k]))]

\* the files after the driver calls of one submission (append mode)
FilesAfter(fls, calls) ==
    [p \in Paths |->
        LET W == SelectSeq(calls, LAMBDA e : e.drv.kind = "file" /\ e.outcome = "written"
                                             /\ e.drv.path = p)
        IN  fls[p] \o [k \in 1..Len(W) |-> Format(EntryOf(W[k]))]]

\* the logs after submission number n = Len(submitCalls) + 1, made on channel c
\* when it holds the policies plcs and the drivers drvs, with result res
Logged(c, entry, by, plcs, drvs, res) ==
    LET n == Len(submitCalls) + 1
    IN  /\ submitCalls' = Append(submitCalls,
              [chn |-> c, level |-> entry.m_level, text |-> entry.m_text,
               src |-> entry.m_source, ts |-> entry.m_timestamp, by |-> by,
               plcs |-> plcs, drvs |-> [k \in 1..Len(drvs) |-> drvs[k].id],
               outcome |-> res.outcome])
        /\ plcEvals' = plcEvals \o
              [k \in 1..Len(res.evals) |->
                  [call |-> n, idx |-> res.evals[k].idx, thr |-> res.evals[k].thr,
                   level |-> res.evals[k].level, text |-> res.evals[k].text,
                   src |-> res.evals[k].src, ts |-> res.evals[k].ts,
                   result |-> res.evals[k].result]]
        /\ drvCalls' = drvCalls \o
              [k \in 1..Len(res.calls) |->
                  [call |-> n, idx |-> res.calls[k].idx, drv |-> res.calls[k].drv.id,
                   path |-> res.calls[k].drv.path,
                   level |-> res.calls[k].level, text |-> res.calls[k].text,
                   src |-> res.calls[k].src, ts |-> res.calls[k].ts,
                   outcome |-> res.calls[k].outcome]]
        /\ console' = ConsoleAfter(console, res.calls)
        /\ files' = FilesAfter(files, res.calls)

\* ChannelBase_(drvs), ChannelBase_() when drvs is empty
ChannelBase_(c, drvs) ==
    /\ chanSt[c] = "none"
    /\ chanSt' = [chanSt EXCEPT ![c] = "live"]
    /\ m_drivers' = [m_drivers EXCEPT ![c] = drvs]
    /\ m_policies' = [m_policies EXCEPT ![c] = <<>>]
    /\ UNCHANGED <<ebVars, submitCalls, plcEvals, drvCalls, logVars, auxVars>>

RegisterDrivers(c, drvs) ==
    /\ chanSt[c] = "live"
    /\ Len(m_drivers[c]) + Len(drvs) <= MaxDrivers
    /\ m_drivers' = [m_drivers EXCEPT ![c] = @ \o drvs]
    /\ UNCHANGED <<chanSt, m_policies, ebVars, submitCalls, plcEvals, drvCalls, logVars,
                   auxVars>>

RegisterPolicies(c, plcs) ==
    /\ chanSt[c] = "live"
    /\ Len(m_policies[c]) + Len(plcs) <= MaxPolicies
    /\ m_policies' = [m_policies EXCEPT ![c] = @ \o plcs]
    /\ UNCHANGED <<chanSt, m_drivers, ebVars, submitCalls, plcEvals, drvCalls, logVars,
                   auxVars>>

\* chn.Submit(entry) called by the owner of the channel
Submit(c, entry) ==
    /\ chanSt[c] = "live"
    /\ Len(submitCalls) < MaxSubmits
    /\ Logged(c, entry, "caller", m_policies[c], m_drivers[c],
              ChannelSubmit(m_policies[c], m_drivers[c], entry))
    /\ UNCHANGED <<chanVars, ebVars, logCalls, auxVars>>

-----------------------------------------------------------------------------
(* Specification of a channel used directly *)

\* the thresholds and entry levels the callers use
PolicyLevels == {"NONE", "WARN"}
EntryLevels  == {"ERROR", "WARN", "INFO"}

\* the driver objects the program can make
DrvObjs == 1..NumDrvObjs

\* a driver object that has not been made
NoObj == [st |-> "none", kind |-> "none", m_formatter |-> "null", path |-> "none",
          buf |-> <<>>]

\* the addresses operator new can return
NodeIds == 1..MaxNodes

\* memory that holds no Node yet
NoNode == [data |-> "", next |-> Null, st |-> "free"]

\* no LinkedList member function has been called
NoListCall == [n |-> 0, op |-> "none", data |-> "", index |-> 0, outcome |-> "none"]

\* LinkedList(): first = nullptr, last = nullptr, size = 0
InitList ==
    /\ heap = [a \in NodeIds |-> NoNode]
    /\ first = Null
    /\ last = Null
    /\ size = 0
    /\ llSt = "ok"
    /\ llLog = NoListCall

\* GetDuration has not been called
NoGet == [n |-> 0, outcome |-> "none", result |-> 0]

\* no Timer has been constructed
InitTimer ==
    /\ tmSt = "none"
    /\ tmTF = 1
    /\ m_steps = <<>>
    /\ tmLog = NoGet

\* the clock, and no formatter call, driver object, list operation or timer yet
InitAux ==
    /\ now = 0
    /\ fmtLog = <<>>
    /\ dObj = [d \in DrvObjs |-> NoObj]
    /\ dChan = <<>>
    /\ InitList
    /\ InitTimer

\* no member function of the builder has been called
NoCall == [op |-> "none", text |-> "", level |-> "INFO", loc |-> NoLoc, time |-> 0]

Init ==
    /\ chanSt = [c \in ChanIds |-> "none"]
    /\ m_drivers = [c \in ChanIds |-> <<>>]
    /\ m_policies = [c \in ChanIds |-> <<>>]
    /\ ebSt = "none"
    /\ m_level = "INFO"
    /\ m_text = ""
    /\ m_source = NoLoc
    /\ m_timestamp = 0
    /\ m_dest = Null
    /\ chnCalls = <<>>
    /\ ebLog = NoCall
    /\ submitCalls = <<>>
    /\ plcEvals = <<>>
    /\ drvCalls = <<>>
    /\ console = <<>>
    /\ files = [p \in Paths |-> <<>>]
    /\ logCalls = <<>>
    /\ InitAux

Next ==
    \/ \E c \in DirectChans, drvs \in SeqsUpTo(Drivers, MaxDrivers) : ChannelBase_(c, drvs)
    \/ \E c \in DirectChans, drvs \in SeqsUpTo(Drivers, MaxDrivers) \ {<<>>} : RegisterDrivers(c, drvs)
    \/ \E c \in DirectChans, plcs \in SeqsUpTo(PolicyLevels, MaxPolicies) \ {<<>>} : RegisterPolicies(c, plcs)
    \/ \E c \in DirectChans, l \in EntryLevels, t \in {"a"} :
          Submit(c, MakeEntry(l, t))

Spec == Init /\ [][Next]_vars

-----------------------------------------------------------------------------
(* EntryBuilder_ *)

BuilderEntry_StampAtSubmit ==
    [m_level |-> m_level, m_text |-> m_text, m_source |-> m_source,
     m_timestamp |-> now]

\* the Entry_ base object of the builder
BuilderEntry ==
    [m_level |-> m_level, m_text |-> m_text, m_source |-> m_source,
     m_timestamp |-> m_timestamp]

\* EntryBuilder_(loc): Entry_(loc, std::chrono::system_clock::now())
EntryBuilder_(loc) ==
    /\ ebSt = "none"
    /\ ebSt' = "open"
    /\ m_level' = EntryAt(loc, now).m_level
    /\ m_text' = EntryAt(loc, now).m_text
    /\ m_source' = EntryAt(loc, now).m_source
    /\ m_timestamp' = EntryAt(loc, now).m_timestamp
    /\ m_dest' = Null
    /\ ebLog' = [NoCall EXCEPT !.op = "EntryBuilder_", !.loc = loc, !.time = now]
    /\ UNCHANGED <<chnCalls, chanVars, submitCalls, plcEvals, drvCalls, logVars, auxVars>>

Text_KeepFirst(txt) ==
    /\ ebSt = "open"
    /\ m_text' = IF m_text = "" THEN txt ELSE m_text
    /\ ebLog' = [ebLog EXCEPT !.op = "Text", !.text = txt]
    /\ UNCHANGED <<ebSt, m_level, m_source, m_timestamp, m_dest, chnCalls, chanVars,
                   submitCalls, plcEvals, drvCalls, logVars, auxVars>>

\* Text(txt): m_text = std::move(txt)
Text(txt) ==
    /\ ebSt = "open"
    /\ m_text' = txt
    /\ ebLog' = [ebLog EXCEPT !.op = "Text", !.text = txt]
    /\ UNCHANGED <<ebSt, m_level, m_source, m_timestamp, m_dest, chnCalls, chanVars,
                   submitCalls, plcEvals, drvCalls, logVars, auxVars>>

\* Level(lvl): m_level = lvl
Level(lvl) ==
    /\ ebSt = "open"
    /\ m_level' = lvl
    /\ ebLog' = [ebLog EXCEPT !.op = "Level", !.level = lvl]
    /\ UNCHANGED <<ebSt, m_text, m_source, m_timestamp, m_dest, chnCalls, chanVars,
                   submitCalls, plcEvals, drvCalls, logVars, auxVars>>

\* the channel objects after m_dest = std::move(chn): the builder owns chn and
\* the channel it owned before is destroyed
Rebound(chn) ==
    [c \in ChanIds |-> IF c = chn THEN "bound"
                       ELSE IF c = m_dest THEN "dead" ELSE chanSt[c]]

Channel_KeepFirst(chn) ==
    /\ ebSt = "open"
    /\ chn = Null \/ (chn \in ChanIds /\ chanSt[chn] = "live")
    /\ Len(chnCalls) < MaxBinds
    /\ chnCalls' = Append(chnCalls, chn)
    /\ m_dest' = IF m_dest = Null THEN chn ELSE m_dest
    /\ chanSt' = IF m_dest = Null THEN Rebound(chn)
                 ELSE [c \in ChanIds |-> IF c = chn THEN "dead" ELSE chanSt[c]]
    /\ ebLog' = [ebLog EXCEPT !.op = "Channel"]
    /\ UNCHANGED <<ebSt, m_level, m_text, m_source, m_timestamp, m_drivers, m_policies,
                   submitCalls, plcEvals, drvCalls, logVars, auxVars>>

\* Channel(std::move(chn)): chn is a channel the caller owns, or empty
Channel(chn) ==
    /\ ebSt = "open"
    /\ chn = Null \/ (chn \in ChanIds /\ chanSt[chn] = "live")
    /\ Len(chnCalls) < MaxBinds
    /\ chnCalls' = Append(chnCalls, chn)
    /\ m_dest' = chn
    /\ chanSt' = Rebound(chn)
    /\ ebLog' = [ebLog EXCEPT !.op = "Channel"]
    /\ UNCHANGED <<ebSt, m_level, m_text, m_source, m_timestamp, m_drivers, m_policies,
                   submitCalls, plcEvals, drvCalls, logVars, auxVars>>

\* Level(lvl).Text(txt) called by the member function op
LevelText(op, lvl, txt) ==
    /\ ebSt = "open"
    /\ m_level' = lvl
    /\ m_text' = txt
    /\ ebLog' = [ebLog EXCEPT !.op = op, !.level = lvl, !.text = txt]
    /\ UNCHANGED <<ebSt, m_source, m_timestamp, m_dest, chnCalls, chanVars, submitCalls,
                   plcEvals, drvCalls, logVars, auxVars>>

Trace(txt) == LevelText("Trace", "TRACE", txt)

Debug(txt) == LevelText("Debug", "DEBUG", txt)

Info(txt) == LevelText("Info", "INFO", txt)

Warn(txt) == LevelText("Warn", "WARN", txt)

Fatal_AsError(txt) == LevelText("Fatal", "ERROR", txt)

Fatal(txt) == LevelText("Fatal", "FATAL", txt)

Destroy_NoSubmit ==
    /\ ebSt = "open"
    /\ ebSt' = "done"
    /\ chanSt' = [c \in ChanIds |-> IF c = m_dest THEN "dead" ELSE chanSt[c]]
    /\ ebLog' = [ebLog EXCEPT !.op = "~EntryBuilder_"]
    /\ UNCHANGED <<m_level, m_text, m_source, m_timestamp, m_dest, chnCalls, m_drivers,
                   m_policies, submitCalls, plcEvals, drvCalls, logVars, auxVars>>

\* ~EntryBuilder_(): submits when a channel is bound; an exception leaving the
\* destructor ends the program (std::terminate). m_dest keeps the binding the
\* builder had when it was destroyed.
Destroy ==
    /\ ebSt = "open"
    /\ IF m_dest # Null
       THEN LET res == ChannelSubmit(m_policies[m_dest], m_drivers[m_dest], BuilderEntry)
            IN  /\ Logged(m_dest, BuilderEntry, "builder", m_policies[m_dest],
                          m_drivers[m_dest], res)
                /\ ebSt' = IF res.outcome = "raised" THEN "terminated" ELSE "done"
                /\ chanSt' = IF res.outcome = "raised" THEN chanSt
                             ELSE [chanSt EXCEPT ![m_dest] = "dead"]
       ELSE /\ ebSt' = "done"
            /\ UNCHANGED <<chanSt, submitCalls, plcEvals, drvCalls, console, files>>
    /\ ebLog' = [ebLog EXCEPT !.op = "~EntryBuilder_"]
    /\ UNCHANGED <<m_level, m_text, m_source, m_timestamp, m_dest, chnCalls, m_drivers,
                   m_policies, logCalls, auxVars>>

\* time passes between two calls
Tick ==
    /\ now < MaxClock
    /\ now' = now + 1
    /\ UNCHANGED <<chanVars, ebVars, submitCalls, plcEvals, drvCalls, logVars, fmtLog,
                   drvObjVars, listVars, timerVars>>

-----------------------------------------------------------------------------
(* Specification of a builder used with channels made beforehand *)

\* the driver lists and policy lists of the channels handed to the builder
BuilderDrivers  == {<<RecordingDriver, FailedFileDriver>>, <<ThrowingDriver, RecordingDriver>>}
BuilderPolicies == {<<>>, <<"WARN">>}

InitBuilder ==
    /\ chanSt = [c \in ChanIds |-> "live"]
    /\ m_drivers \in {[c \in ChanIds |-> drvs] : drvs \in BuilderDrivers}
    /\ m_policies \in {[c \in ChanIds |-> plcs] : plcs \in BuilderPolicies}
    /\ ebSt = "none"
    /\ m_level = "INFO"
    /\ m_text = ""
    /\ m_source = NoLoc
    /\ m_timestamp = 0
    /\ m_dest = Null
    /\ chnCalls = <<>>
    /\ ebLog = NoCall
    /\ submitCalls = <<>>
    /\ plcEvals = <<>>
    /\ drvCalls = <<>>
    /\ console = <<>>
    /\ files = [p \in Paths |-> <<>>]
    /\ logCalls = <<>>
    /\ InitAux

NextBuilder ==
    \/ \E loc \in CallSites : EntryBuilder_(loc)
    \/ \E t \in Texts : Text(t)
    \/ \E l \in Levels : Level(l)
    \/ \E c \in ChanIds \cup {Null} : Channel(c)
    \/ \E t \in Texts : Trace(t)
    \/ \E t \in Texts : Debug(t)
    \/ \E t \in Texts : Info(t)
    \/ \E t \in Texts : Warn(t)
    \/ \E t \in Texts : Fatal(t)
    \/ Destroy
    \/ Tick

SpecBuilder == InitBuilder /\ [][NextBuilder]_vars

-----------------------------------------------------------------------------
(* Pre-defined functions for logging *)

\* what the file system does during one call
FsEnv == {[dirOK |-> TRUE,  openOK |-> TRUE,  writeOK |-> TRUE],
          [dirOK |-> FALSE, openOK |-> TRUE,  writeOK |-> TRUE],
          [dirOK |-> TRUE,  openOK |-> FALSE, writeOK |-> TRUE],
          [dirOK |-> TRUE,  openOK |-> TRUE,  writeOK |-> FALSE]}

\* the ChannelDefault made inside ConsoleLog / FileLog
TempChan == NumChannels + 1

\* the place of std::source_location::current() in ConsoleLog and in FileLog
ConsoleLogLoc == [file |-> "logging.h", line |-> 372, function |-> "ConsoleLog"]

FileLogLoc == [file |-> "logging.h", line |-> 408, function |-> "FileLog"]

BuilderLocIn_Caller(fn, site) == site

\* the location given to the builder made in function fn when fn is called from site
BuilderLocIn(fn, site) == IF fn = "ConsoleLog" THEN ConsoleLogLoc ELSE FileLogLoc

\* the builder of ConsoleLog / FileLog at the end of the function:
\* EntryBuilder_(loc); eb->Channel(chn); eb->Level(lvl); eb->Text(text)
LogEntry(loc, text, lvl) == [EntryAt(loc, now) EXCEPT !.m_level = lvl, !.m_text = text]

\* the rest of ConsoleLog / FileLog once the driver drv is made
LogThrough(fn, site, drv, text, path, lvl) ==
    LET drvs  == <<>> \o <<drv>>
        plcs  == <<>> \o <<lvl>>
        entry == LogEntry(BuilderLocIn(fn, site), text, lvl)
        res   == ChannelSubmit(plcs, drvs, entry)
    IN  /\ Logged(TempChan, entry, "builder", plcs, drvs, res)
        /\ logCalls' = Append(logCalls,
              [fn |-> fn, site |-> site, text |-> text, path |-> path, lvl |-> lvl,
               call |-> Len(submitCalls) + 1, outcome |-> res.outcome])

\* ConsoleLog(text, lvl) called from site
ConsoleLog(site, text, lvl) ==
    /\ Len(logCalls) < MaxLogCalls
    /\ LogThrough("ConsoleLog", site, StdConsoleDebugDriver, text, "none", lvl)
    /\ UNCHANGED <<chanVars, ebVars, auxVars>>

\* FileLog(text, path, lvl) called from site
FileLog(site, text, path, lvl, env) ==
    /\ Len(logCalls) < MaxLogCalls
    /\ LET fd == FileDriver(path, env)
       IN  IF fd.raised
           THEN /\ logCalls' = Append(logCalls,
                      [fn |-> "FileLog", site |-> site, text |-> text, path |-> path,
                       lvl |-> lvl, call |-> 0, outcome |-> "raised"])
                /\ UNCHANGED <<submitCalls, plcEvals, drvCalls, console, files>>
           ELSE LogThrough("FileLog", site, fd.drv, text, path, lvl)
    /\ UNCHANGED <<chanVars, ebVars, auxVars>>

\* the levels that have a wrapper: ConsoleLogTrace .. ConsoleLogFatal, FileLogTrace ..
WrapperLevels == {"TRACE", "DEBUG", "INFO", "WARN", "ERROR", "FATAL"}

\* the line of the call in the wrapper of each level, counted from the first wrapper
WrapperLine(line0, lvl) ==
    line0 + 4 * (CHOOSE k \in 0..5 :
                    <<"TRACE", "DEBUG", "INFO", "WARN", "ERROR", "FATAL">>[k + 1] = lvl)

\* ConsoleLogTrace(text) .. ConsoleLogFatal(text)
ConsoleLogLevel(text, lvl) ==
    /\ lvl \in WrapperLevels
    /\ ConsoleLog([file |-> "logging.h", line |-> WrapperLine(380, lvl),
                   function |-> "ConsoleLogLevel"], text, lvl)

\* FileLogTrace(text, path) .. FileLogFatal(text, path)
FileLogLevel(text, path, lvl, env) ==
    /\ lvl \in WrapperLevels
    /\ FileLog([file |-> "logging.h", line |-> WrapperLine(416, lvl),
                function |-> "FileLogLevel"], text, path, lvl, env)

\* FileLogTrace(text) .. FileLogFatal(text)
FileLogLevelDefault(text, lvl, env) ==
    /\ lvl \in WrapperLevels
    /\ FileLog([file |-> "logging.h", line |-> WrapperLine(441, lvl),
                function |-> "FileLogLevel"], text, DEFAULT_FILE_LOG_PATH, lvl, env)

\* what a log file holds before the program runs
OldContent == <<"earlier content">>

InitLog ==
    /\ chanSt = [c \in ChanIds |-> "none"]
    /\ m_drivers = [c \in ChanIds |-> <<>>]
    /\ m_policies = [c \in ChanIds |-> <<>>]
    /\ ebSt = "none"
    /\ m_level = "INFO"
    /\ m_text = ""
    /\ m_source = NoLoc
    /\ m_timestamp = 0
    /\ m_dest = Null
    /\ chnCalls = <<>>
    /\ ebLog = NoCall
    /\ submitCalls = <<>>
    /\ plcEvals = <<>>
    /\ drvCalls = <<>>
    /\ console = <<>>
    /\ files \in {[p \in Paths |-> <<>>], [p \in Paths |-> OldContent]}
    /\ logCalls = <<>>
    /\ InitAux

\* the file-system outcomes tried with the wrappers
WrapperEnv == {env \in FsEnv : env.dirOK /\ env.openOK /\ env.writeOK}

NextLog ==
    \/ \E site \in CallSites, t \in {"a"}, l \in Levels : ConsoleLog(site, t, l)
    \/ \E t \in {"a"}, l \in WrapperLevels : ConsoleLogLevel(t, l)
    \/ \E site \in {CHOOSE x \in CallSites : x.function = "main"},
          t \in {"a"}, p \in Paths, l \in Levels, env \in FsEnv :
          FileLog(site, t, p, l, env)
    \/ \E t \in {"a"}, p \in Paths, l \in WrapperLevels, env \in WrapperEnv :
          FileLogLevel(t, p, l, env)
    \/ \E t \in {"a"}, l \in WrapperLevels, env \in WrapperEnv :
          FileLogLevelDefault(t, l, env)

SpecLog == InitLog /\ [][NextLog]_vars

-----------------------------------------------------------------------------
(* Specification of SeverityPolicy used directly *)

\* SeverityPolicy(thr).TransformEntry(entry) called on its own
TransformEntryCall(thr, entry) ==
    /\ Len(plcEvals) < MaxEvals
    /\ plcEvals' = Append(plcEvals,
          [call |-> 0, idx |-> 1, thr |-> thr, level |-> entry.m_level,
           result |-> TransformEntry(thr, entry)])
    /\ UNCHANGED <<chanVars, ebVars, submitCalls, drvCalls, logVars, auxVars>>

NextPolicy ==
    \E thr \in Levels, l \in Levels, t \in Texts :
        TransformEntryCall(thr, MakeEntry(l, t))

SpecPolicy == Init /\ [][NextPolicy]_vars

-----------------------------------------------------------------------------
(* Specification of FormatterText used directly *)

\* FormatterText().Format(entry) in a process whose time zone is zone
FormatCall(entry, zone) ==
    /\ Len(fmtLog) < MaxFormats
    /\ fmtLog' = Append(fmtLog, [entry |-> entry, zone |-> zone,
                                 out |-> FormatIn(entry, zone)])
    /\ UNCHANGED <<chanVars, ebVars, submitCalls, plcEvals, drvCalls, logVars, now,
                   drvObjVars, listVars, timerVars>>

\* the timestamps of the entries given to the formatter
FormatTimes == {0, 1}

\* the entries given to the formatter
FormatEntries ==
    {[m_level |-> l, m_text |-> t, m_source |-> src, m_timestamp |-> ts] :
        l \in Levels, t \in Texts, src \in CallSites, ts \in FormatTimes}

NextFormat == \E entry \in FormatEntries, zone \in Zones : FormatCall(entry, zone)

SpecFormat == Init /\ [][NextFormat]_vars

-----------------------------------------------------------------------------
(* Formatting drivers as objects: StdConsoleDebugDriver and FileDriver whose
   formatter can be replaced, shared between their owner and one channel *)

\* what m_formatter can hold: nullptr, a FormatterText, a Formatter_ of the user
Formatters == {"null", "FormatterText", "FormatterUser"}

\* m_formatter->Format(entry)
FormatBy(fmtr, entry) ==
    IF fmtr = "FormatterText" THEN Format(entry) ELSE <<"user: ", entry.m_text>>

\* the paths the file drivers are made with
DriverPaths == {DEFAULT_FILE_LOG_PATH}

\* the entries submitted to the shared drivers
DriverEntries == {MakeEntry("INFO", t) : t \in Texts}

\* the driver object made next
NextObj(d) == /\ dObj[d].st = "none"
              /\ \A e \in DrvObjs : e < d => dObj[e].st # "none"

\* StdConsoleDebugDriver(std::move(fmtr)); StdConsoleDebugDriver() when fmtr is a FormatterText
NewStdConsoleDebugDriver(d, fmtr) ==
    /\ NextObj(d)
    /\ dObj' = [dObj EXCEPT ![d] = [st |-> "live", kind |-> "console", m_formatter |-> fmtr,
                                    path |-> "none", buf |-> <<>>]]
    /\ UNCHANGED <<chanVars, ebVars, submitCalls, plcEvals, drvCalls, logVars, now, fmtLog,
                   dChan, listVars, timerVars>>

\* FileDriver(path, std::move(fmtr)): the file is opened for appending, what it holds stays
NewFileDriver(d, path, fmtr) ==
    /\ NextObj(d)
    /\ dObj' = [dObj EXCEPT ![d] = [st |-> "live", kind |-> "file", m_formatter |-> fmtr,
                                    path |-> path, buf |-> <<>>]]
    /\ UNCHANGED <<chanVars, ebVars, submitCalls, plcEvals, drvCalls, logVars, now, fmtLog,
                   dChan, listVars, timerVars>>

\* d.SetFormatter(std::move(fmtr))
SetFormatter(d, fmtr) ==
    /\ dObj[d].st = "live"
    /\ dObj' = [dObj EXCEPT ![d].m_formatter = fmtr]
    /\ UNCHANGED <<chanVars, ebVars, submitCalls, plcEvals, drvCalls, logVars, now, fmtLog,
                   dChan, listVars, timerVars>>

\* RegisterDrivers({d}) on the channel, d a shared pointer to a driver object
\* made after those the channel holds
RegisterShared(d) ==
    /\ dObj[d].st = "live"
    /\ \A k \in 1..Len(dChan) : dChan[k] < d
    /\ dChan' = Append(dChan, d)
    /\ UNCHANGED <<chanVars, ebVars, submitCalls, plcEvals, drvCalls, logVars, now, fmtLog,
                   dObj, listVars, timerVars>>

DriverFmtSubmit_NullRaises(obj, entry) ==
    IF obj.m_formatter # "null"
    THEN [ret |-> "returned", wrote |-> TRUE, out |-> FormatBy(obj.m_formatter, entry)]
    ELSE [ret |-> "raised", wrote |-> FALSE, out |-> <<>>]

\* StdConsoleDebugDriver::Submit and FileDriver::Submit: if(m_formatter) stream << Format(entry)
DriverFmtSubmit(obj, entry) ==
    IF obj.m_formatter # "null"
    THEN [ret |-> "returned", wrote |-> TRUE, out |-> FormatBy(obj.m_formatter, entry)]
    ELSE [ret |-> "returned", wrote |-> FALSE, out |-> <<>>]

RECURSIVE RunShared(_, _, _, _)
\* second loop of ChannelBase_::Submit over the shared driver objects, from
\* driver i on: the objects, std::cout and the calls made
RunShared(objs, con, entry, i) ==
    IF i > Len(dChan) THEN [objs |-> objs, con |-> con, calls |-> <<>>]
    ELSE LET d    == dChan[i]
             r    == DriverFmtSubmit(objs[d], entry)
             e    == [idx |-> i, drv |-> d, kind |-> objs[d].kind, path |-> objs[d].path,
                      fmt |-> objs[d].m_formatter, level |-> entry.m_level,
                      text |-> entry.m_text, src |-> entry.m_source,
                      ts |-> entry.m_timestamp,
                      outcome |-> IF r.ret = "raised" THEN "raised"
                                  ELSE IF r.wrote THEN "written" ELSE "dropped"]
             objs2 == IF r.wrote /\ objs[d].kind = "file"
                      THEN [objs EXCEPT ![d].buf = Append(@, r.out)] ELSE objs
             con2  == IF r.wrote /\ objs[d].kind = "console" THEN Append(con, r.out) ELSE con
         IN  IF r.ret = "raised" THEN [objs |-> objs2, con |-> con2, calls |-> <<e>>]
             ELSE LET rest == RunShared(objs2, con2, entry, i + 1)
                  IN  [objs |-> rest.objs, con |-> rest.con, calls |-> <<e>> \o rest.calls]

\* Submit(entry) on the channel of the shared drivers (it has no policy)
SubmitShared(entry) ==
    /\ dChan # <<>>
    /\ Len(submitCalls) < MaxObjSubmits
    /\ LET n   == Len(submitCalls) + 1
           res == RunShared(dObj, console, entry, 1)
       IN  /\ submitCalls' = Append(submitCalls,
                 [chn |-> TempChan, level |-> entry.m_level, text |-> entry.m_text,
                  src |-> entry.m_source, ts |-> entry.m_timestamp, by |-> "caller",
                  plcs |-> <<>>, drvs |-> dChan,
                  outcome |-> IF \E k \in 1..Len(res.calls) : res.calls[k].outcome = "raised"
                              THEN "raised" ELSE "returned"])
           /\ drvCalls' = drvCalls \o
                 [k \in 1..Len(res.calls) |->
                     [call |-> n, idx |-> res.calls[k].idx, drv |-> res.calls[k].drv,
                      kind |-> res.calls[k].kind, path |-> res.calls[k].path,
                      fmt |-> res.calls[k].fmt, level |-> res.calls[k].level,
                      text |-> res.calls[k].text, src |-> res.calls[k].src,
                      ts |-> res.calls[k].ts, outcome |-> res.calls[k].outcome]]
           /\ dObj' = res.objs
           /\ console' = res.con
    /\ UNCHANGED <<chanVars, ebVars, plcEvals, files, logCalls, now, fmtLog, dChan, listVars, timerVars>>

\* the buffer of m_file is full and is written to the file
Overflow(d) ==
    /\ dObj[d].st = "live"
    /\ dObj[d].kind = "file"
    /\ dObj[d].buf # <<>>
    /\ files' = [files EXCEPT ![dObj[d].path] = @ \o dObj[d].buf]
    /\ dObj' = [dObj EXCEPT ![d].buf = <<>>]
    /\ UNCHANGED <<chanVars, ebVars, submitCalls, plcEvals, drvCalls, console, logCalls, now,
                   fmtLog, dChan, listVars, timerVars>>

\* the last shared pointer to d is released: ~FileDriver closes m_file, which
\* writes what the buffer holds
DestroyDriver(d) ==
    /\ dObj[d].st = "live"
    /\ \A k \in 1..Len(dChan) : dChan[k] # d
    /\ files' = IF dObj[d].kind = "file"
                THEN [files EXCEPT ![dObj[d].path] = @ \o dObj[d].buf] ELSE files
    /\ dObj' = [dObj EXCEPT ![d] = [NoObj EXCEPT !.st = "gone"]]
    /\ UNCHANGED <<chanVars, ebVars, submitCalls, plcEvals, drvCalls, console, logCalls, now,
                   fmtLog, dChan, listVars, timerVars>>

\* the channel is destroyed and releases its shared pointers
DestroyChannel ==
    /\ dChan # <<>>
    /\ dChan' = <<>>
    /\ UNCHANGED <<chanVars, ebVars, submitCalls, plcEvals, drvCalls, logVars, now, fmtLog,
                   dObj, listVars, timerVars>>

\* drivers of both kinds whose formatter is replaced between submissions
NextDriver ==
    \/ \E d \in DrvObjs, fmtr \in {"null", "FormatterText"} :
          NewStdConsoleDebugDriver(d, fmtr)
    \/ \E d \in DrvObjs, path \in DriverPaths, fmtr \in {"null", "FormatterText"} :
          NewFileDriver(d, path, fmtr)
    \/ \E d \in DrvObjs, fmtr \in {"null", "FormatterUser"} : SetFormatter(d, fmtr)
    \/ \E d \in DrvObjs : RegisterShared(d)
    \/ \E entry \in {MakeEntry("INFO", "a")} : SubmitShared(entry)

SpecDriver == Init /\ [][NextDriver]_vars

\* file drivers with the default formatter, made, used and destroyed in any order
NextFile ==
    \/ \E d \in DrvObjs, path \in DriverPaths : NewFileDriver(d, path, "FormatterText")
    \/ \E d \in DrvObjs : RegisterShared(d)
    \/ \E entry \in DriverEntries : SubmitShared(entry)
    \/ \E d \in DrvObjs : Overflow(d)
    \/ \E d \in DrvObjs : DestroyDriver(d)
    \/ DestroyChannel

SpecFile == InitLog /\ [][NextFile]_vars

-----------------------------------------------------------------------------
(* LinkedList (src/src/linked_list.h) *)

\* the values stored in the list
Data == {"x", "y"}

\* index - 1 in unsigned int: 0 - 1 wraps to 4294967295. The model keeps
\* 2147483647, the largest integer TLC holds, in its place: both are above the
\* length of every chain of Nodes and above INT_MAX - 1, the last value the
\* loop counter int i can be incremented from.
IndexMinusOne(index) == IF index = 0 THEN 2147483647 ELSE index - 1

\* how a call that reads through a null or dangling pointer, or frees a Node
\* twice, can end: the process is killed, or it goes on with its memory in no
\* known state
UBOutcomes == {"crashed", "corrupt"}

\* the LinkedList object and the Nodes as one value
List == [heap |-> heap, first |-> first, last |-> last, size |-> size]

\* the result of a member function: the list after it, how it ended
\* ("returned", "threw", "ub", "loop") and whether it used a freed Node
Result(L, end, uaf) == [L |-> L, end |-> end, uaf |-> uaf]

\* the addresses operator new can return: memory never used (the lowest such
\* address) or memory of a Node that was freed
FreeAddrs ==
    {a \in NodeIds : \/ heap[a].st = "freed"
                     \/ /\ heap[a].st = "free"
                        /\ \A b \in NodeIds : b < a => heap[b].st # "free"}

\* new Node(d) at address a
NewNode(h, a, d) == [h EXCEPT ![a] = [data |-> d, next |-> Null, st |-> "live"]]

RECURSIVE DeletePath(_, _, _)
\* the Nodes destroyed by delete p: ~Node() { delete next; } destroys the
\* whole chain behind p; freeing a Node that is not allocated is fatal
DeletePath(h, p, seen) ==
    IF p = Null THEN [nodes |-> seen, fatal |-> FALSE]
    ELSE IF h[p].st # "live" \/ p \in seen THEN [nodes |-> seen, fatal |-> TRUE]
    ELSE DeletePath(h, h[p].next, seen \cup {p})

\* delete p
Delete(h, p) ==
    LET r == DeletePath(h, p, {})
    IN  [heap |-> [a \in NodeIds |-> IF a \in r.nodes THEN [h[a] EXCEPT !.st = "freed"]
                                     ELSE h[a]],
         fatal |-> r.fatal]

RECURSIVE Walk(_, _, _)
\* p = p->next done k times
Walk(h, p, k) ==
    IF k = 0 THEN [p |-> p, fatal |-> FALSE, uaf |-> FALSE]
    ELSE IF p = Null THEN [p |-> Null, fatal |-> TRUE, uaf |-> FALSE]
    ELSE LET r == Walk(h, h[p].next, k - 1)
         IN  [p |-> r.p, fatal |-> r.fatal, uaf |-> r.uaf \/ h[p].st = "freed"]

\* Add(d), the new Node being at address a
ListAdd(L, d, a) ==
    LET h1 == NewNode(L.heap, a, d)
    IN  IF L.size = 0
        THEN Result([heap |-> h1, first |-> a, last |-> a, size |-> 1], "returned", FALSE)
        ELSE IF L.last = Null THEN Result(L, "ub", FALSE)
        ELSE Result([heap |-> [h1 EXCEPT ![L.last].next = a], first |-> L.first,
                     last |-> a, size |-> L.size + 1],
                    "returned", L.heap[L.last].st = "freed")

RECURSIVE PopIter(_, _, _)
\* while (iter->next->next != nullptr) iter = iter->next;
PopIter(h, iter, fuel) ==
    IF iter = Null \/ h[iter].next = Null THEN [p |-> iter, end |-> "ub", uaf |-> FALSE]
    ELSE LET n1  == h[iter].next
             uaf == h[iter].st = "freed" \/ h[n1].st = "freed"
         IN  IF h[n1].next = Null THEN [p |-> iter, end |-> "returned", uaf |-> uaf]
             ELSE IF fuel = 0 THEN [p |-> iter, end |-> "loop", uaf |-> uaf]
             ELSE LET r == PopIter(h, n1, fuel - 1)
                  IN  [p |-> r.p, end |-> r.end, uaf |-> r.uaf \/ uaf]

\* Pop()
ListPop(L) ==
    IF L.size = 0 THEN Result(L, "returned", FALSE)
    ELSE IF L.size = 1
    THEN LET r == Delete(L.heap, L.first)
         IN  Result([heap |-> r.heap, first |-> Null, last |-> Null, size |-> 0],
                    IF r.fatal THEN "ub" ELSE "returned", FALSE)
    ELSE LET it == PopIter(L.heap, L.first, MaxNodes)
         IN  IF it.end # "returned" THEN Result(L, it.end, it.uaf)
             ELSE LET r == Delete(L.heap, L.last)
                  IN  Result([heap |-> [r.heap EXCEPT ![it.p].next = Null],
                              first |-> L.first, last |-> it.p, size |-> L.size - 1],
                             IF r.fatal THEN "ub" ELSE "returned",
                             it.uaf \/ r.heap[it.p].st = "freed")

\* Insert(d, index), the new Node being at address a
ListInsert(L, d, index, a) ==
    IF L.size > 0 /\ index > L.size THEN Result(L, "threw", FALSE)
    ELSE IF L.size = 0 \/ L.size = index THEN ListAdd(L, d, a)
    ELSE LET h1    == NewNode(L.heap, a, d)
             steps == IndexMinusOne(index)
         IN  IF steps > MaxNodes THEN Result(L, "ub", FALSE)
             ELSE LET w == Walk(h1, L.first, steps)
                  IN  IF w.fatal \/ w.p = Null THEN Result(L, "ub", w.uaf)
                      ELSE Result([heap |-> [h1 EXCEPT ![a].next = h1[w.p].next,
                                                       ![w.p].next = a],
                                   first |-> L.first, last |-> L.last,
                                   size |-> L.size + 1],
                                  "returned", w.uaf \/ L.heap[w.p].st = "freed")

\* Remove(index)
ListRemove(L, index) ==
    IF L.size = 0 THEN Result(L, "returned", FALSE)
    ELSE IF index >= L.size THEN Result(L, "threw", FALSE)
    ELSE IF index = 0
    THEN IF L.first = Null THEN Result(L, "ub", FALSE)
         ELSE LET r == Delete(L.heap, L.first)
              IN  Result([heap |-> r.heap, first |-> L.heap[L.first].next,
                          last |-> L.last, size |-> L.size - 1],
                         IF r.fatal THEN "ub" ELSE "returned", FALSE)
    ELSE LET w == Walk(L.heap, L.first, index)
         IN  IF w.fatal \/ w.p = Null \/ L.heap[w.p].next = Null
             THEN Result(L, "ub", w.uaf)
             ELSE LET n1 == L.heap[w.p].next
                      r  == Delete(L.heap, n1)
                  IN  Result([heap |-> [r.heap EXCEPT ![w.p].next = L.heap[n1].next],
                              first |-> L.first, last |-> L.last, size |-> L.size - 1],
                             IF r.fatal THEN "ub" ELSE "returned",
                             w.uaf \/ L.heap[w.p].st = "freed" \/ L.heap[n1].st = "freed")

RECURSIVE ListClear(_, _)
\* Clear(): while (first != nullptr) Pop();
ListClear(L, fuel) ==
    IF L.first = Null THEN Result(L, "returned", FALSE)
    ELSE IF fuel = 0 THEN Result(L, "loop", FALSE)
    ELSE LET r == ListPop(L)
         IN  IF r.end # "returned" THEN r
             ELSE LET rest == ListClear(r.L, fuel - 1)
                  IN  Result(rest.L, rest.end, rest.uaf \/ r.uaf)

\* At(index): the Node returned, or Null when At throws
ListAt(L, index) ==
    IF L.size = 0 \/ index > L.size - 1 THEN Null
    ELSE IF index = 0 THEN L.first
    ELSE LET w == Walk(L.heap, L.first, index)
         IN  IF w.fatal THEN Null ELSE w.p

\* one call of a member function with result r: either it ends as the code
\* says, reading freed memory as it was left, or undefined behaviour ends it
ListCall(op, d, index, r) ==
    /\ llSt = "ok"
    /\ llLog.n < MaxListCalls
    /\ \/ /\ r.end \in {"returned", "threw"}
          /\ heap' = r.L.heap
          /\ first' = r.L.first
          /\ last' = r.L.last
          /\ size' = r.L.size
          /\ llSt' = "ok"
          /\ llLog' = [n |-> llLog.n + 1, op |-> op, data |-> d, index |-> index,
                       outcome |-> r.end]
       \/ /\ r.end \in {"ub", "loop"} \/ r.uaf
          /\ llSt' \in (IF r.end = "loop" THEN UBOutcomes \cup {"hung"} ELSE UBOutcomes)
          /\ llLog' = [n |-> llLog.n + 1, op |-> op, data |-> d, index |-> index,
                       outcome |-> "ub"]
          /\ UNCHANGED <<heap, first, last, size>>
    /\ UNCHANGED <<chanVars, ebVars, submitCalls, plcEvals, drvCalls, logVars, now, fmtLog,
                   drvObjVars, timerVars>>

Add(d) == \E a \in FreeAddrs : ListCall("Add", d, 0, ListAdd(List, d, a))

Pop == \E r \in {ListPop(List)} : ListCall("Pop", "", 0, r)

Insert(d, index) == \E a \in FreeAddrs : ListCall("Insert", d, index, ListInsert(List, d, index, a))

Remove(index) == \E r \in {ListRemove(List, index)} : ListCall("Remove", "", index, r)

Clear == \E r \in {ListClear(List, MaxListCalls + 1)} : ListCall("Clear", "", 0, r)

NextList ==
    \/ \E d \in Data : Add(d)
    \/ Pop
    \/ \E d \in Data, index \in 0..MaxNodes : Insert(d, index)
    \/ \E index \in 0..MaxNodes : Remove(index)
    \/ Clear

SpecList == Init /\ [][NextList]_vars

-----------------------------------------------------------------------------
(* Timer<TF> *)

\* TF as the number of ticks of std::chrono::system_clock in one unit of TF:
\* the clock's own duration type, and a unit of two ticks
TFPeriods == {1, 2}

\* the names given to Step
StepNames == {"load"}

\* Timer::Entry
TimerEntry(name, time) == [m_name |-> name, m_time |-> time]

\* std::chrono::duration_cast<TF>(d) to an integer count of TF units: the
\* quotient is truncated toward zero
DurationCast(d, period) == IF d >= 0 THEN d \div period ELSE -((-d) \div period)

\* Timer::Contains(name)
StepsContain(steps, name) == \E k \in 1..Len(steps) : steps[k].m_name = name

\* steps.emplace_back(name, time)
EmplaceBack(steps, name, time) == Append(steps, TimerEntry(name, time))

\* Timer<TF> timer;
NewTimer(tf) ==
    /\ tmSt = "none"
    /\ tmSt' = "live"
    /\ tmTF' = tf
    /\ m_steps' = <<>>
    /\ UNCHANGED <<chanVars, ebVars, submitCalls, plcEvals, drvCalls, logVars, now, fmtLog,
                   drvObjVars, listVars, tmLog>>

\* Start()
Start ==
    /\ tmSt = "live"
    /\ Len(m_steps) < MaxSteps
    /\ m_steps' = EmplaceBack(m_steps, "TimerStart", now)
    /\ UNCHANGED <<chanVars, ebVars, submitCalls, plcEvals, drvCalls, logVars, now, fmtLog,
                   drvObjVars, listVars, tmSt, tmTF, tmLog>>

\* Step(name)
Step(name) ==
    /\ tmSt = "live"
    /\ Len(m_steps) < MaxSteps
    /\ m_steps' = EmplaceBack(m_steps, name, now)
    /\ UNCHANGED <<chanVars, ebVars, submitCalls, plcEvals, drvCalls, logVars, now, fmtLog,
                   drvObjVars, listVars, tmSt, tmTF, tmLog>>

\* Finish()
Finish ==
    /\ tmSt = "live"
    /\ Len(m_steps) < MaxSteps
    /\ m_steps' = EmplaceBack(m_steps, "TimerFinish", now)
    /\ UNCHANGED <<chanVars, ebVars, submitCalls, plcEvals, drvCalls, logVars, now, fmtLog,
                   drvObjVars, listVars, tmSt, tmTF, tmLog>>

\* GetDuration(): begin()->m_time - (--end())->m_time, cast to TF. On an
\* empty m_steps begin() is end(): both reads go through an iterator that
\* refers to no Entry, which is undefined behaviour.
GetDuration ==
    /\ tmSt = "live"
    /\ tmLog.n < MaxGets
    /\ IF m_steps = <<>>
       THEN /\ tmSt' \in UBOutcomes
            /\ tmLog' = [n |-> tmLog.n + 1, outcome |-> "ub", result |-> 0]
       ELSE /\ tmSt' = tmSt
            /\ tmLog' = [n |-> tmLog.n + 1, outcome |-> "returned",
                         result |-> DurationCast(m_steps[1].m_time
                                                   - m_steps[Len(m_steps)].m_time, tmTF)]
    /\ UNCHANGED <<chanVars, ebVars, submitCalls, plcEvals, drvCalls, logVars, now, fmtLog,
                   drvObjVars, listVars, tmTF, m_steps>>

\* ~Timer()
DestroyTimer ==
    /\ tmSt = "live"
    /\ tmSt' = "dead"
    /\ m_steps' = IF StepsContain(m_steps, "TimerFinish") THEN m_steps
                  ELSE EmplaceBack(m_steps, "TimerDestroyedUntimely", now)
    /\ UNCHANGED <<chanVars, ebVars, submitCalls, plcEvals, drvCalls, logVars, now, fmtLog,
                   drvObjVars, listVars, tmTF, tmLog>>

NextTimer ==
    \/ \E tf \in TFPeriods : NewTimer(tf)
    \/ Start
    \/ \E name \in StepNames : Step(name)
    \/ Finish
    \/ GetDuration
    \/ DestroyTimer
    \/ Tick

SpecTimer == Init /\ [][NextTimer]_vars

-----------------------------------------------------------------------------
(* Observations on the logs *)

\* the policy evaluations made during submission n
EvalsOf(n) == SelectSeq(plcEvals, LAMBDA e : e.call = n)

\* the driver calls made during submission n
CallsOf(n) == SelectSeq(drvCalls, LAMBDA e : e.call = n)

\* the ids of the drivers called during submission n, in call order
DriversCalled(n) == [k \in 1..Len(CallsOf(n)) |-> CallsOf(n)[k].drv]

\* submission n passed every policy it was shown to
Accepted(n) == \A k \in 1..Len(EvalsOf(n)) : EvalsOf(n)[k].result

Count(seq, x) == Cardinality({k \in 1..Len(seq) : seq[k] = x})

-----------------------------------------------------------------------------
(* Claims *)

\* the order of the levels as the claims state it
StatedOrder == <<"NONE", "FATAL", "ERROR", "WARN", "INFO", "DEBUG", "TRACE">>

StatedGE(l, t) ==
    \E i, j \in 1..Len(StatedOrder) : StatedOrder[i] = l /\ StatedOrder[j] = t /\ i >= j

\* C1: SeverityPolicy(T).TransformEntry on an entry of level L returns true
\* exactly when L >= T under NONE < FATAL < ERROR < WARN < INFO < DEBUG < TRACE.
C1_SeverityThreshold ==
    \A k \in 1..Len(plcEvals) :
        plcEvals[k].result = StatedGE(plcEvals[k].level, plcEvals[k].thr)

\* an accepting evaluation at the threshold itself and a rejecting one below it
C1_Witness ==
    /\ Len(plcEvals) = 2
    /\ plcEvals[1].level = "WARN" /\ plcEvals[1].thr = "WARN" /\ plcEvals[1].result
    /\ plcEvals[2].level = "ERROR" /\ plcEvals[2].thr = "WARN" /\ ~plcEvals[2].result

\* C2: on a channel without policies every Submit calls Submit on every
\* registered driver exactly once, in registration order.
C2_NoPolicyForwardsToAll ==
    \A n \in 1..Len(submitCalls) :
        submitCalls[n].plcs = <<>> => DriversCalled(n) = submitCalls[n].drvs

\* C3: policies are evaluated in registration order up to the first one that
\* rejects; after a rejection no later policy is evaluated and no driver is
\* called; drivers are called only when every registered policy accepted.
C3_FirstRejectionStops ==
    \A n \in 1..Len(submitCalls) :
        LET E == EvalsOf(n)
            P == submitCalls[n].plcs
        IN  /\ Len(E) <= Len(P)
            /\ \A k \in 1..Len(E) : E[k].idx = k /\ E[k].thr = P[k]
            /\ \A k \in 1..(Len(E) - 1) : E[k].result
            /\ Len(E) < Len(P) => ~E[Len(E)].result
            /\ ~Accepted(n) => CallsOf(n) = <<>>
            /\ CallsOf(n) # <<>> => Len(E) = Len(P) /\ Accepted(n)

\* a submission rejected by the first of two policies, on a channel with a driver
C3_Witness ==
    \E n \in 1..Len(submitCalls) :
        /\ Len(submitCalls[n].plcs) = 2
        /\ submitCalls[n].drvs # <<>>
        /\ Len(EvalsOf(n)) = 1
        /\ ~EvalsOf(n)[1].result
        /\ CallsOf(n) = <<>>

\* the three submissions of the scenario: one SeverityPolicy(WARN), one
\* recording driver, entries INFO, WARN, ERROR in that order
Scenario1 ==
    /\ Len(submitCalls) = 3
    /\ \A n \in 1..3 : submitCalls[n].plcs = <<"WARN">>
                       /\ submitCalls[n].drvs = <<RecordingDriver.id>>
    /\ [n \in 1..3 |-> submitCalls[n].level] = <<"INFO", "WARN", "ERROR">>

\* the levels the recording driver has seen, in order
Recorded ==
    LET R == SelectSeq(drvCalls, LAMBDA e : e.drv = RecordingDriver.id)
    IN  [k \in 1..Len(R) |-> R[k].level]

\* C5 as stated: the recording driver observes exactly [WARN, ERROR].
C5_Stated == Scenario1 => Recorded = <<"WARN", "ERROR">>

\* C5 amended: the recording driver observes exactly [INFO, WARN].
C5_Scenario1 == Scenario1 => Recorded = <<"INFO", "WARN">>

C5_Witness == Scenario1 /\ Len(Recorded) = 2

\* C6: when an accepted entry is given to a driver that fails (writes nothing
\* or raises), every driver registered after it is still called.
C6_FailureDoesNotStopDispatch ==
    \A n \in 1..Len(submitCalls) :
        \A k \in 1..Len(CallsOf(n)) :
            CallsOf(n)[k].outcome # "written" =>
                \A j \in (CallsOf(n)[k].idx + 1)..Len(submitCalls[n].drvs) :
                    \E m \in 1..Len(CallsOf(n)) :
                        CallsOf(n)[m].idx = j /\ CallsOf(n)[m].drv = submitCalls[n].drvs[j]

\* C8: a driver registered k >= 2 times is called exactly k times for an
\* accepted entry and not at all for a rejected one.
C8_DuplicateDriver ==
    \A n \in 1..Len(submitCalls) :
        \A d \in {Drivers_d.id : Drivers_d \in Drivers} :
            Count(submitCalls[n].drvs, d) >= 2 =>
                Count(DriversCalled(n), d) =
                    IF Accepted(n) /\ Len(EvalsOf(n)) = Len(submitCalls[n].plcs)
                    THEN Count(submitCalls[n].drvs, d) ELSE 0

\* C4: a builder submits nothing before it is finalized; finalization calls
\* Submit on the bound channel exactly once, and with no channel bound it makes
\* no Submit call and no driver output.
C4_SubmitOnceAtFinalization ==
    /\ ebSt \in {"none", "open"} => submitCalls = <<>> /\ drvCalls = <<>>
    /\ ebSt \in {"done", "terminated"} =>
          IF m_dest # Null
          THEN /\ Len(submitCalls) = 1
               /\ submitCalls[1].chn = m_dest
               /\ submitCalls[1].by = "builder"
          ELSE /\ submitCalls = <<>>
               /\ drvCalls = <<>>
               /\ console = <<>>
               /\ \A p \in Paths : files[p] = <<>>

\* a builder finalized with a channel bound, after Text and Level calls
C4_Witness ==
    /\ ebSt = "done"
    /\ m_dest # Null
    /\ m_text # "" /\ m_level # "INFO"
    /\ Len(submitCalls) = 1
    /\ submitCalls[1].chn = m_dest

\* C7: every call of ConsoleLog and FileLog returns normally, whatever the
\* file system does.
C7_NoFailureReachesCaller ==
    \A k \in 1..Len(logCalls) : logCalls[k].outcome = "returned"

\* C9: every call of ConsoleLog(t, L) or FileLog(t, path, L) makes a channel
\* with exactly one driver and exactly one SeverityPolicy(L), and that driver
\* is given exactly one entry, of level L and text t.
C9_OneEntryPerCall ==
    \A k \in 1..Len(logCalls) :
        LET c == logCalls[k]
        IN  /\ c.call # 0
            /\ submitCalls[c.call].chn = TempChan
            /\ Len(submitCalls[c.call].drvs) = 1
            /\ submitCalls[c.call].plcs = <<c.lvl>>
            /\ Accepted(c.call)
            /\ Len(CallsOf(c.call)) = 1
            /\ CallsOf(c.call)[1].level = c.lvl
            /\ CallsOf(c.call)[1].text = c.text

\* the submissions made on channel c
SubmitsTo(c) == SelectSeq(submitCalls, LAMBDA e : e.chn = c)

\* C10: the builder is bound to the channel of the last Channel call only; at
\* finalization that channel is submitted to exactly once and a channel that
\* was bound earlier and replaced is never submitted to.
C10_LastBindingWins ==
    /\ Cardinality({c \in ChanIds : chanSt[c] = "bound"}) <= 1
    /\ chnCalls # <<>> =>
          LET bound == chnCalls[Len(chnCalls)]
          IN  /\ m_dest = bound
              /\ \A c \in ChanIds : chanSt[c] = "bound" => c = bound
              /\ \A k \in 1..Len(chnCalls) :
                    chnCalls[k] # bound => SubmitsTo(chnCalls[k]) = <<>>
              /\ ebSt \in {"done", "terminated"} /\ bound # Null =>
                    Len(SubmitsTo(bound)) = 1 /\ Len(submitCalls) = 1

\* a finalized builder that was bound to one channel and then to another
C10_Witness ==
    /\ ebSt = "done"
    /\ Len(chnCalls) = 2
    /\ chnCalls[1] # Null /\ chnCalls[2] # Null
    /\ chanSt[chnCalls[1]] = "dead"
    /\ SubmitsTo(chnCalls[1]) = <<>>
    /\ Len(SubmitsTo(chnCalls[2])) = 1

\* the submissions made by the builder
BuilderSubmits == {n \in 1..Len(submitCalls) : submitCalls[n].by = "builder"}

\* C11: the entry submitted at finalization carries the text of the last Text
\* call and the level of the last Level call ("" and INFO when never called),
\* in whatever order Text, Level and Channel were called; Text changes only
\* the text, Level only the level, Channel only the binding.
C11_EntryCarriesLastArgs ==
    /\ [](\A n \in BuilderSubmits :
             /\ submitCalls[n].text = ebLog.text
             /\ submitCalls[n].level = ebLog.level)
    /\ [][/\ ebLog'.op = "Text" =>
                /\ m_text' = ebLog'.text
                /\ UNCHANGED <<m_level, m_source, m_timestamp, m_dest, chanSt>>
          /\ ebLog'.op = "Level" =>
                /\ m_level' = ebLog'.level
                /\ UNCHANGED <<m_text, m_source, m_timestamp, m_dest, chanSt>>
          /\ ebLog'.op = "Channel" =>
                UNCHANGED <<m_level, m_text, m_source, m_timestamp>>]_vars

C11_Witness ==
    /\ ebSt = "done"
    /\ Len(chnCalls) = 2
    /\ \E n \in BuilderSubmits :
          /\ submitCalls[n].text = "b"
          /\ submitCalls[n].level = "FATAL"
          /\ m_text = "b"
          /\ m_level = "FATAL"

\* C12: source location and timestamp of an entry are those of the builder's
\* construction: no later call and no delay before finalization changes them,
\* and every driver (and policy) observes the values captured at construction.
C12_FixedAtConstruction ==
    ebSt # "none" =>
        /\ m_source = ebLog.loc
        /\ m_timestamp = ebLog.time
        /\ \A n \in BuilderSubmits :
              /\ \A k \in 1..Len(CallsOf(n)) :
                    CallsOf(n)[k].src = ebLog.loc /\ CallsOf(n)[k].ts = ebLog.time
              /\ \A k \in 1..Len(EvalsOf(n)) :
                    EvalsOf(n)[k].src = ebLog.loc /\ EvalsOf(n)[k].ts = ebLog.time

C12_Witness ==
    /\ ebSt = "done"
    /\ \E k \in 1..Len(drvCalls) :
          /\ drvCalls[k].ts < now
          /\ drvCalls[k].src \in CallSites
          /\ submitCalls[drvCalls[k].call].text # ""

\* C13: during Submit the entry does not change: every policy and every driver
\* invoked for a submission observes the level, text, source and timestamp the
\* builder held at finalization.
C13_EntryNotMutated ==
    \A n \in BuilderSubmits :
        LET held == BuilderEntry
            same(e) == /\ e.level = held.m_level
                       /\ e.text = held.m_text
                       /\ e.src = held.m_source
                       /\ e.ts = held.m_timestamp
        IN  /\ same(submitCalls[n])
            /\ \A k \in 1..Len(EvalsOf(n)) : same(EvalsOf(n)[k])
            /\ \A k \in 1..Len(CallsOf(n)) : same(CallsOf(n)[k])

C13_Witness ==
    \E n \in BuilderSubmits :
        /\ Len(EvalsOf(n)) >= 1
        /\ Len(CallsOf(n)) >= 2
        /\ submitCalls[n].level # "INFO"

\* the level each convenience method stands for
MethodLevel ==
    [Trace |-> "TRACE", Debug |-> "DEBUG", Info |-> "INFO", Warn |-> "WARN",
     Fatal |-> "FATAL"]

\* C14: X(m) for X in Trace, Debug, Info, Warn, Fatal leaves the builder as
\* Level(X's level).Text(m) does: level is X's level, text is m, and binding,
\* source and timestamp are unchanged.
C14_ConvenienceIsLevelText ==
    [][\A X \in DOMAIN MethodLevel :
          ebLog'.op = X =>
             /\ m_level' = MethodLevel[X]
             /\ m_text' = ebLog'.text
             /\ UNCHANGED <<m_dest, m_source, m_timestamp, chanSt, ebSt>>]_vars

C14_Witness ==
    /\ ebLog.op = "Fatal"
    /\ m_level = "FATAL"
    /\ m_text = "b"
    /\ m_dest # Null
    /\ now > m_timestamp

\* the calls of ConsoleLog / FileLog that reached Submit
LogSubmits == {k \in 1..Len(logCalls) : logCalls[k].call # 0}

\* C18: every entry logged through ConsoleLog or FileLog, directly or through
\* a per-level wrapper, carries the location inside the convenience function
\* where the builder is made, the same for every caller and call site, and
\* not the location of the code that called the function.
C18_LocationInsideFunction ==
    \A k \in LogSubmits :
        LET n == logCalls[k].call
        IN  /\ submitCalls[n].src.file = "logging.h"
            /\ submitCalls[n].src.function = logCalls[k].fn
            /\ submitCalls[n].src # logCalls[k].site
            /\ \A i \in 1..Len(CallsOf(n)) : CallsOf(n)[i].src = submitCalls[n].src
            /\ \A j \in LogSubmits :
                  logCalls[j].fn = logCalls[k].fn =>
                      submitCalls[logCalls[j].call].src = submitCalls[n].src

C18_Witness ==
    \E k, j \in LogSubmits :
        /\ logCalls[k].fn = logCalls[j].fn
        /\ logCalls[k].site.file = "main.cpp"
        /\ logCalls[j].site.file = "logging.h"
        /\ Len(CallsOf(logCalls[k].call)) = 1
        /\ Len(CallsOf(logCalls[j].call)) = 1

\* the formatted text out has the piece x
Contains(out, x) == \E k \in 1..Len(out) : out[k] = x

WrittenTo(p) ==
    LET W == SelectSeq(drvCalls, LAMBDA e : e.kind = "file" /\ e.path = p
                                            /\ e.outcome = "written")
    IN  [k \in 1..Len(W) |-> FormatBy(W[k].fmt, EntryOf(W[k]))]

\* no file driver holds text for path p that it has not yet written out
Settled(p) ==
    \A d \in DrvObjs : (dObj[d].st = "live" /\ dObj[d].path = p) => dObj[d].buf = <<>>

\* C15: file output is append-only: after any sequence of accepted submissions
\* to FileDrivers on one path the file holds its earlier content followed by
\* the formatted entries in submission order.
C15_AppendInSubmissionOrder ==
    \A p \in DriverPaths :
        Settled(p) => \E old \in {<<>>, OldContent} : files[p] = old \o WrittenTo(p)

\* the driver objects the channel calls, in order, in submission n
SharedCalled(n) == [k \in 1..Len(CallsOf(n)) |-> CallsOf(n)[k].drv]

\* the texts of entry that the drivers drvs, each with its formatter, put
\* into their stream, in order
TextBy(drvs, entry) ==
    [k \in 1..Len(drvs) |-> FormatBy(dObj[drvs[k]].m_formatter, entry)]

\* C17: a formatting driver whose formatter is null writes nothing on Submit
\* and returns, and the channel calls the drivers registered after it; after
\* SetFormatter with a formatter the driver writes again, with that formatter.
C17_NullFormatterSkips ==
    /\ [](/\ \A k \in 1..Len(drvCalls) :
                drvCalls[k].fmt = "null" <=> drvCalls[k].outcome = "dropped"
          /\ \A n \in 1..Len(submitCalls) :
                /\ submitCalls[n].outcome = "returned"
                /\ SharedCalled(n) = submitCalls[n].drvs)
    /\ [][Len(submitCalls') = Len(submitCalls) + 1 =>
            LET entry == EntryOf(submitCalls'[Len(submitCalls')])
                writes(kind) == SelectSeq(dChan, LAMBDA d : /\ dObj[d].kind = kind
                                                            /\ dObj[d].m_formatter # "null")
            IN  /\ console' = console \o TextBy(writes("console"), entry)
                /\ \A d \in DrvObjs :
                      dObj'[d].buf = dObj[d].buf \o
                          TextBy(SelectSeq(writes("file"), LAMBDA x : x = d), entry)]_vars

C17_Witness ==
    \E i, j, k \in 1..Len(drvCalls) :
        /\ drvCalls[i].call = 1 /\ drvCalls[i].idx = 1
        /\ drvCalls[i].fmt = "null" /\ drvCalls[i].outcome = "dropped"
        /\ drvCalls[j].call = 1 /\ drvCalls[j].idx = 2
        /\ drvCalls[j].outcome = "written"
        /\ drvCalls[k].call = 2 /\ drvCalls[k].drv = drvCalls[i].drv
        /\ drvCalls[k].fmt = "FormatterUser" /\ drvCalls[k].outcome = "written"
        /\ \/ drvCalls[k].kind = "file" /\ dObj[drvCalls[k].drv].buf # <<>>
           \/ drvCalls[k].kind = "console" /\ console # <<>>

RECURSIVE ChainFrom(_, _, _)
\* the Nodes reached from p by following next, at most fuel of them
ChainFrom(h, p, fuel) ==
    IF p = Null \/ fuel = 0 THEN <<>>
    ELSE <<p>> \o ChainFrom(h, h[p].next, fuel - 1)

\* the Nodes of a list and the values they hold
Chain(L) == ChainFrom(L.heap, L.first, MaxNodes + 1)

Elems(L) == [k \in 1..Len(Chain(L)) |-> L.heap[Chain(L)[k]].data]

\* size counts the Nodes reachable from first, last is the final one of them
\* (first and last are null when there is none), and none of them is freed
WellFormed(L) ==
    /\ Len(Chain(L)) <= MaxNodes
    /\ L.size = Len(Chain(L))
    /\ Chain(L) = <<>> => (L.first = Null /\ L.last = Null)
    /\ Chain(L) # <<>> => L.last = Chain(L)[Len(Chain(L))]
    /\ \A k \in 1..Len(Chain(L)) : L.heap[Chain(L)[k]].st = "live"
    /\ L.last # Null => L.heap[L.last].st = "live"

\* C19: after any sequence of Add, Pop, Insert, Remove and Clear calls that
\* return, Size() is the number of Nodes reachable from first, last is the
\* final Node of the chain (both null when the list is empty) and no Node
\* reachable from first or equal to last has been freed.
C19_ListWellFormed == llSt = "ok" => WellFormed(List)

\* the sequence seq with d put at position i, counted from 0
InsertAt(seq, i, d) ==
    [k \in 1..Len(seq) + 1 |-> IF k <= i THEN seq[k] ELSE IF k = i + 1 THEN d ELSE seq[k - 1]]

\* C20: on a list of size n, Insert(d, i) with 0 <= i <= n returns and leaves
\* a list of size n + 1 where At(i) holds d, the elements below i keep their
\* place and those from i on follow d in their old order.
C20_InsertPlacesAtIndex ==
    [][(/\ llLog'.n = llLog.n + 1
        /\ llLog'.op = "Insert"
        /\ WellFormed(List)
        /\ llLog'.index <= size)
       => /\ llLog'.outcome = "returned"
          /\ size' = size + 1
          /\ Elems(List)' = InsertAt(Elems(List), llLog'.index, llLog'.data)
          /\ ListAt(List', llLog'.index) # Null
          /\ heap'[ListAt(List', llLog'.index)].data = llLog'.data]_vars

\* the sequence seq without the element at position i, counted from 0
RemoveAt(seq, i) ==
    [k \in 1..Len(seq) - 1 |-> IF k <= i THEN seq[k] ELSE seq[k + 1]]

\* At(k) on list L returns a Node that is allocated and holds d
AtHolds(L, k, d) ==
    /\ ListAt(L, k) # Null
    /\ L.heap[ListAt(L, k)].st = "live"
    /\ L.heap[ListAt(L, k)].data = d

\* C21: on a list of size n >= 1, Remove(i) with i < n returns and leaves a
\* list of size n - 1 whose At(0) .. At(n - 2) are the old elements without
\* the one at position i, in their old order; Remove(i) with i >= n throws
\* and leaves the size and the elements as they were.
C21_RemoveTakesIndex ==
    [][(/\ llLog'.n = llLog.n + 1
        /\ llLog'.op = "Remove"
        /\ WellFormed(List)
        /\ size >= 1)
       => IF llLog'.index < size
          THEN /\ llLog'.outcome = "returned"
               /\ size' = size - 1
               /\ \A k \in 0..size - 2 :
                      AtHolds(List', k, RemoveAt(Elems(List), llLog'.index)[k + 1])
          ELSE /\ llLog'.outcome = "threw"
               /\ size' = size
               /\ \A k \in 0..size - 1 : AtHolds(List', k, Elems(List)[k + 1])]_vars

\* m_steps as Start(), any number of Step calls and Finish() leave it
StartToFinish(steps) ==
    /\ Len(steps) >= 2
    /\ steps[1].m_name = "TimerStart"
    /\ steps[Len(steps)].m_name = "TimerFinish"
    /\ \A k \in 2..Len(steps) - 1 : steps[k].m_name \in StepNames

\* C22: on a timer whose steps are TimerStart, any number of named steps and
\* TimerFinish, GetDuration returns the time of TimerFinish minus the time of
\* TimerStart, in units of TF, and the value is not negative.
C22_DurationStartToFinish ==
    [][(/\ tmLog'.n = tmLog.n + 1
        /\ StartToFinish(m_steps))
       => /\ tmLog'.outcome = "returned"
          /\ tmLog'.result = DurationCast(m_steps[Len(m_steps)].m_time - m_steps[1].m_time,
                                          tmTF)
          /\ tmLog'.result >= 0]_vars

====
